---- MODULE Spec2Model ----
(***************************************************************************)
(* Model of image_stitch.py: stitch_images tiles the *.png files of a      *)
(* directory into one RGBA grid image.                                     *)
(*                                                                         *)
(* A path is a sequence of character codes, a pixel is a tuple of band     *)
(* values (3 bands for an RGB image, 4 for RGBA), an image is a record     *)
(* [mode, w, h, px, status] whose px is the row-major pixel sequence that  *)
(* getdata() returns.  The filesystem is the output file, the temporary    *)
(* file temp.png and the output directory.  The output path, temp.png and  *)
(* the input files are taken to be different files.                        *)
(***************************************************************************)
EXTENDS Integers, Sequences, FiniteSets, TLC

VARIABLES
    directory,        \* the names of the files in the input directory
    fill,             \* the fill image, or NoFill (--fill absent)
    reduce,           \* --reduce
    colorkey,         \* --colorkey, an RGB triple, or None
    process_colorkey, \* --process-colorkey
    grid_rows,        \* --grid-rows
    grid_cols,        \* --grid-cols
    outputDirname,    \* TRUE iff os.path.dirname(output) is not empty
    outFile,          \* the file at the output path, or NoFile
    tempFile,         \* the file temp.png, or NoFile
    outDir,           \* TRUE iff the directory of the output path exists
    fs0,              \* the filesystem when the run started
    pc,               \* position in stitch_images
    image_files,      \* sorted(glob(...))
    cell_size,
    result,           \* the canvas
    fill_image_resized,
    i,                \* index of the paste loop
    pastes,           \* the calls of result.paste made so far
    outcome,          \* how the run ended
    exitCode          \* the exit status of the process

args == <<directory, fill, reduce, colorkey, process_colorkey, grid_rows,
          grid_cols, outputDirname>>
fs == <<outFile, tempFile, outDir>>
locals == <<image_files, cell_size, result, fill_image_resized, i, pastes>>
vars == <<args, fs, fs0, pc, locals, outcome, exitCode>>

----------------------------------------------------------------------------
(* Bounds *)

MaxRows == 2
MaxCols == 2
MaxFiles == 3

----------------------------------------------------------------------------
(* Values *)

\* no colour key: an empty value, false in "process_colorkey and colorkey"
None == <<>>
\* a variable that holds no image yet
NoImage == [w |-> 0, h |-> 0, px |-> <<>>]
\* no file at a path
NoFile == [kind |-> "none", img |-> NoImage]

\* the transparent pixel appended at line 113
Transparent == <<0, 0, 0, 0>>

\* default of --colorkey
DefaultColorKey == <<255, 0, 228>>

Image(mode, w, h, px, status) ==
    [mode |-> mode, w |-> w, h |-> h, px |-> px, status |-> status]

\* fill is None
NoFill == Image("none", 0, 0, <<>>, "none")

\* The files a directory may hold, each with the image it contains.  Names are character codes:
\* 45 '-'  46 '.'  48 '0'  49 '1'  50 '2'  98 'b'  99 'c'
\* 103 'g'  106 'j'  110 'n'  112 'p'
DirUniverse ==
    { \* "1-.png": 2x1 RGBA, key colour and a near miss, both opaque
      [name |-> <<49, 45, 46, 112, 110, 103>>,
       img |-> Image("RGBA", 2, 1,
                     << <<255, 0, 228, 255>>, <<255, 0, 227, 255>> >>, "ok")],
      \* "1.png": 1x2 RGBA, key colour half transparent, another colour
      \* half transparent
      [name |-> <<49, 46, 112, 110, 103>>,
       img |-> Image("RGBA", 1, 2,
                     << <<255, 0, 228, 128>>, <<10, 20, 30, 128>> >>, "ok")],
      \* "10.png": 1x1 RGB, key colour
      [name |-> <<49, 48, 46, 112, 110, 103>>,
       img |-> Image("RGB", 1, 1, << <<255, 0, 228>> >>, "ok")],
      \* "2.png": 2x2 RGBA, opaque, transparent, key colour transparent,
      \* near miss
      [name |-> <<50, 46, 112, 110, 103>>,
       img |-> Image("RGBA", 2, 2,
                     << <<10, 20, 30, 255>>, <<10, 20, 30, 0>>,
                        <<255, 0, 228, 0>>, <<254, 0, 228, 255>> >>, "ok")],
      \* "b.png": not a PNG at all
      [name |-> <<98, 46, 112, 110, 103>>,
       img |-> Image("RGBA", 1, 1, << <<0, 0, 0, 255>> >>, "badheader")],
      \* "c.png": valid header, corrupt pixel data
      [name |-> <<99, 46, 112, 110, 103>>,
       img |-> Image("RGBA", 1, 1, << <<0, 0, 0, 255>> >>, "baddata")],
      \* "1.jpg"
      [name |-> <<49, 46, 106, 112, 103>>,
       img |-> Image("RGB", 1, 1, << <<9, 9, 9>> >>, "ok")] }

\* The images --fill may name
FillUniverse ==
    { Image("RGB", 2, 1, << <<1, 2, 3>>, <<4, 5, 6>> >>, "ok"),
      Image("RGBA", 1, 1, << <<0, 0, 0, 255>> >>, "baddata") }

\* What the user may type at the overwrite prompt
Responses == {"y", "Y", "n", "yes", ""}

\* A file that was at the output path before the run
OldFile == [kind |-> "old", img |-> NoImage]
\* A temp.png left behind by an earlier run
StaleTemp == [kind |-> "stale", img |-> NoImage]

----------------------------------------------------------------------------
(* Pure functions *)

\* str.lower() on the responses
lower(s) == IF s = "Y" THEN "y" ELSE s

Max(a, b) == IF a >= b THEN a ELSE b

\* comparison of two str, by code point, a proper prefix first
RECURSIVE LexLess(_, _)
LexLess(a, b) ==
    IF a = <<>> THEN b # <<>>
    ELSE IF b = <<>> THEN FALSE
    ELSE IF a[1] < b[1] THEN TRUE
    ELSE IF a[1] > b[1] THEN FALSE
    ELSE LexLess(Tail(a), Tail(b))

RECURSIVE Insert(_, _)
Insert(x, s) ==
    IF s = <<>> THEN <<x>>
    ELSE IF LexLess(x, s[1]) THEN <<x>> \o s
    ELSE <<s[1]>> \o Insert(x, Tail(s))

\* sorted(list of str)
RECURSIVE sorted(_)
sorted(s) == IF s = <<>> THEN <<>> ELSE Insert(s[1], sorted(Tail(s)))

\* fnmatch of a file name against "*.png"; glob's * skips hidden files
MatchesPattern(name) ==
    /\ Len(name) >= 4
    /\ SubSeq(name, Len(name) - 3, Len(name)) = <<46, 112, 110, 103>>
    /\ name[1] # 46

\* the orders in which a set of names can be listed
RECURSIVE Listings(_)
Listings(names) ==
    IF names = {} THEN {<<>>}
    ELSE UNION {{<<x>> \o rest : rest \in Listings(names \ {x})} : x \in names}

\* glob.glob(f"{directory}/*.png"): the matching paths, in an order the
\* operating system chooses
glob(dir) == Listings({name \in dir : MatchesPattern(name)})

\* the image stored under a path
FileImage(name) == (CHOOSE e \in DirUniverse : e.name = name).img

\* WithinCapacity with the bound off by one
WithinCapacity_OffByOne(num_images, num_cells) == num_images <= num_cells + 1

\* num_images <= num_cells
WithinCapacity(num_images, num_cells) == num_images <= num_cells

\* MaxImageSize that looks at the widths only
RECURSIVE MaxImageSize_WidthOnly(_, _)
MaxImageSize_WidthOnly(files, max_image_size) ==
    IF files = <<>> THEN max_image_size
    ELSE MaxImageSize_WidthOnly(Tail(files),
             Max(max_image_size, FileImage(files[1]).w))

\* MaxImageSize that looks at the heights only
RECURSIVE MaxImageSize_HeightOnly(_, _)
MaxImageSize_HeightOnly(files, max_image_size) ==
    IF files = <<>> THEN max_image_size
    ELSE MaxImageSize_HeightOnly(Tail(files),
             Max(max_image_size, FileImage(files[1]).h))

\* lines 83-88: the largest dimension of the images, a running maximum
RECURSIVE MaxImageSize(_, _)
MaxImageSize(files, max_image_size) ==
    IF files = <<>> THEN max_image_size
    ELSE MaxImageSize(Tail(files),
             Max(max_image_size,
                 Max(FileImage(files[1]).w, FileImage(files[1]).h)))

\* index of pixel (x, y) in the row-major data of an image w wide
Idx(w, x, y) == y * w + x + 1

\* a pixel converted to RGBA: an RGB pixel becomes opaque
ToRGBA(p) == IF Len(p) = 3 THEN p \o <<255>> ELSE p

\* img.convert("RGBA")
ConvertRGBA(img) ==
    [img EXCEPT !.mode = "RGBA", !.px = [k \in 1..Len(img.px) |-> ToRGBA(img.px[k])]]

\* KeyMatches that ignores the blue band
KeyMatches_TwoBands(item, key) == SubSeq(item, 1, 2) = SubSeq(key, 1, 2)

\* item[:3] == tuple(colorkey)
KeyMatches(item, key) == SubSeq(item, 1, 3) = key

\* lines 108-116
ChromaKey(img, key) ==
    LET rgba == ConvertRGBA(img)
    IN [rgba EXCEPT !.px = [k \in 1..Len(rgba.px) |->
            IF KeyMatches(rgba.px[k], key) THEN Transparent ELSE rgba.px[k]]]

\* Image.new('RGBA', (w, h)): every pixel transparent black
NewImage(w, h) ==
    [w |-> w, h |-> h, px |-> [k \in 1..(w * h) |-> Transparent]]

\* fill_image.resize((size, size)), nearest neighbour sampling
Resize(img, size) ==
    [img EXCEPT !.w = size, !.h = size,
         !.px = [k \in 1..(size * size) |->
                   LET x == (k - 1) % size
                       y == (k - 1) \div size
                   IN img.px[Idx(img.w, ((2 * x + 1) * img.w) \div (2 * size),
                                        ((2 * y + 1) * img.h) \div (2 * size))]]]

\* Pillow's BLEND8: (in1 * (255 - mask) + in2 * mask) / 255, rounded
Div255(a) == (((a + 128) \div 256) + (a + 128)) \div 256
Blend8(mask, in1, in2) == Div255(in1 * (255 - mask) + in2 * mask)

\* one pixel of paste with an RGBA mask: all four bands are blended by the
\* alpha of the mask
BlendPixel(dst, src, mask) == [b \in 1..4 |-> Blend8(mask, dst[b], src[b])]

\* TRUE iff pixel (x, y) of the canvas lies in the box of img pasted at (x0, y0)
InBox(img, x0, y0, x, y) ==
    /\ x0 <= x /\ x < x0 + img.w
    /\ y0 <= y /\ y < y0 + img.h

\* result.paste(img, (x0, y0)): the box is overwritten
Paste(canvas, img, x0, y0) ==
    [canvas EXCEPT !.px = [k \in 1..(canvas.w * canvas.h) |->
        LET x == (k - 1) % canvas.w
            y == (k - 1) \div canvas.w
        IN IF InBox(img, x0, y0, x, y)
           THEN ToRGBA(img.px[Idx(img.w, x - x0, y - y0)])
           ELSE canvas.px[k]]]

\* PasteMasked that ignores the mask
PasteMasked_NoMask(canvas, img, x0, y0) == Paste(canvas, img, x0, y0)

\* result.paste(img, (x0, y0), mask=img)
PasteMasked(canvas, img, x0, y0) ==
    [canvas EXCEPT !.px = [k \in 1..(canvas.w * canvas.h) |->
        LET x == (k - 1) % canvas.w
            y == (k - 1) \div canvas.w
        IN IF InBox(img, x0, y0, x, y)
           THEN LET p == img.px[Idx(img.w, x - x0, y - y0)]
                IN BlendPixel(canvas.px[k], p, p[4])
           ELSE canvas.px[k]]]

\* XPos that fills the grid column by column
XPos_ColumnMajor(idx, cols, size) == (idx \div cols) * size

\* lines 101-102
XPos(idx, cols, size) == (idx % cols) * size
YPos(idx, cols, size) == (idx \div cols) * size

\* process_colorkey and colorkey
Keying == process_colorkey /\ colorkey # None

----------------------------------------------------------------------------
(* The run *)

Init ==
    /\ directory \in {d \in SUBSET {e.name : e \in DirUniverse} : Cardinality(d) <= MaxFiles}
    /\ fill \in {NoFill} \cup FillUniverse
    /\ reduce \in BOOLEAN
    /\ colorkey \in {None, DefaultColorKey}
    /\ process_colorkey \in BOOLEAN
    \* the colour key is read only when process_colorkey is set
    /\ ~process_colorkey => colorkey = DefaultColorKey
    /\ grid_rows \in 1..MaxRows
    /\ grid_cols \in 1..MaxCols
    /\ outputDirname \in BOOLEAN
    /\ outFile \in {NoFile, OldFile}
    /\ tempFile \in {NoFile, StaleTemp}
    /\ outDir \in BOOLEAN
    \* a file exists only in an existing directory
    /\ outFile # NoFile => outDir
    \* an output path without a directory part lies in the working directory
    /\ ~outputDirname => outDir
    /\ fs0 = fs
    /\ pc = "prompt"
    /\ image_files = <<>>
    /\ cell_size = 0
    /\ result = NoImage
    /\ fill_image_resized = NoImage
    /\ i = 0
    /\ pastes = <<>>
    /\ outcome = "running"
    /\ exitCode = -1

\* the run ends: by an uncaught exception (status 1), or by sys.exit() or a
\* normal return (status 0)
Exit(how, status) ==
    /\ pc' = "done"
    /\ outcome' = how
    /\ exitCode' = status

\* line 68, the output path does not exist
NoPrompt ==
    /\ pc = "prompt"
    /\ outFile = NoFile
    /\ pc' = "collect"
    /\ UNCHANGED <<args, fs, fs0, locals, outcome, exitCode>>

\* DeclineOverwrite that removes the file before it asks
DeclineOverwrite_RemoveFirst ==
    /\ pc = "prompt"
    /\ outFile # NoFile
    /\ \E response \in Responses : lower(response) # "y"
    /\ outFile' = NoFile
    /\ Exit("UserCancelled", 0)
    /\ UNCHANGED <<args, tempFile, outDir, fs0, locals>>

\* lines 68-72, the user does not answer y
DeclineOverwrite ==
    /\ pc = "prompt"
    /\ outFile # NoFile
    /\ \E response \in Responses : lower(response) # "y"
    /\ Exit("UserCancelled", 0)
    /\ UNCHANGED <<args, fs, fs0, locals>>

\* ConfirmOverwrite that leaves the existing file in place
ConfirmOverwrite_KeepFile ==
    /\ pc = "prompt"
    /\ outFile # NoFile
    /\ \E response \in Responses : lower(response) = "y"
    /\ pc' = "collect"
    /\ UNCHANGED <<args, fs, fs0, locals, outcome, exitCode>>

\* lines 68-73, the user answers y
ConfirmOverwrite ==
    /\ pc = "prompt"
    /\ outFile # NoFile
    /\ \E response \in Responses : lower(response) = "y"
    /\ outFile' = NoFile
    /\ pc' = "collect"
    /\ UNCHANGED <<args, tempFile, outDir, fs0, locals, outcome, exitCode>>

\* lines 75-77, the first assert fails
RejectEmpty ==
    /\ pc = "collect"
    /\ \E listing \in glob(directory) :
          /\ image_files' = sorted(listing)
          /\ ~(Len(image_files') > 0)
    /\ Exit("AssertionError", 1)
    /\ UNCHANGED <<args, fs, fs0, cell_size, result, fill_image_resized, i, pastes>>

\* lines 75-80, the second assert fails
RejectOverCapacity ==
    /\ pc = "collect"
    /\ \E listing \in glob(directory) :
          /\ image_files' = sorted(listing)
          /\ Len(image_files') > 0
          /\ ~WithinCapacity(Len(image_files'), grid_rows * grid_cols)
    /\ Exit("AssertionError", 1)
    /\ UNCHANGED <<args, fs, fs0, cell_size, result, fill_image_resized, i, pastes>>

\* lines 75-80, both asserts hold
Collect ==
    /\ pc = "collect"
    /\ \E listing \in glob(directory) :
          /\ image_files' = sorted(listing)
          /\ Len(image_files') > 0
          /\ WithinCapacity(Len(image_files'), grid_rows * grid_cols)
    /\ pc' = "probe"
    /\ UNCHANGED <<args, fs, fs0, cell_size, result, fill_image_resized, i, pastes,
                   outcome, exitCode>>

\* lines 83-86, Image.open cannot identify one of the files
ProbeFail ==
    /\ pc = "probe"
    /\ \E k \in 1..Len(image_files) :
          FileImage(image_files[k]).status = "badheader"
    /\ Exit("DecodeError", 1)
    /\ UNCHANGED <<args, fs, fs0, locals>>

\* lines 83-93
NewCanvas ==
    /\ pc = "probe"
    /\ \A k \in 1..Len(image_files) :
          FileImage(image_files[k]).status # "badheader"
    /\ cell_size' = MaxImageSize(image_files, 0)
    /\ result' = NewImage(cell_size' * grid_cols, cell_size' * grid_rows)
    /\ pc' = "fill"
    /\ UNCHANGED <<args, fs, fs0, image_files, fill_image_resized, i, pastes,
                   outcome, exitCode>>

\* line 96, no fill image
NoFillImage ==
    /\ pc = "fill"
    /\ fill = NoFill
    /\ pc' = "paste"
    /\ UNCHANGED <<args, fs, fs0, locals, outcome, exitCode>>

\* lines 96-98, the fill image cannot be decoded
OpenFillFail ==
    /\ pc = "fill"
    /\ fill # NoFill
    /\ fill.status # "ok"
    /\ Exit("DecodeError", 1)
    /\ UNCHANGED <<args, fs, fs0, locals>>

\* lines 96-98
OpenFill ==
    /\ pc = "fill"
    /\ fill # NoFill
    /\ fill.status = "ok"
    /\ fill_image_resized' = Resize(fill, cell_size)
    /\ pc' = "paste"
    /\ UNCHANGED <<args, fs, fs0, image_files, cell_size, result, i, pastes,
                   outcome, exitCode>>

\* the source image of iteration i and its position
CurFile == image_files[i + 1]
CurImage == FileImage(CurFile)
x_pos == XPos(i, grid_cols, cell_size)
y_pos == YPos(i, grid_cols, cell_size)

PasteRecord(kind, file, img) ==
    [kind |-> kind, file |-> file, x |-> x_pos, y |-> y_pos, img |-> img]

\* the canvas and the paste calls after line 120
WithFill(canvas) ==
    IF fill # NoFill THEN Paste(canvas, fill_image_resized, x_pos, y_pos) ELSE canvas
FillPastes ==
    IF fill # NoFill THEN <<PasteRecord("fill", CurFile, fill_image_resized)>> ELSE <<>>

\* lines 106-122, the pixel data cannot be decoded: convert() fails at line
\* 108, or paste() at line 122 after the fill was pasted
PasteDecodeFail ==
    /\ pc = "paste"
    /\ i < Len(image_files)
    /\ CurImage.status = "baddata"
    /\ result' = IF Keying THEN result ELSE WithFill(result)
    /\ pastes' = IF Keying THEN pastes ELSE pastes \o FillPastes
    /\ Exit("DecodeError", 1)
    /\ UNCHANGED <<args, fs, fs0, image_files, cell_size, fill_image_resized, i>>

\* lines 106-122, an image without alpha is its own mask: paste() raises
\* ValueError
PasteBadMask ==
    /\ pc = "paste"
    /\ i < Len(image_files)
    /\ CurImage.status = "ok"
    /\ ~Keying
    /\ CurImage.mode # "RGBA"
    /\ result' = WithFill(result)
    /\ pastes' = pastes \o FillPastes
    /\ Exit("ValueError", 1)
    /\ UNCHANGED <<args, fs, fs0, image_files, cell_size, fill_image_resized, i>>

\* lines 100-122, one iteration
PasteImage ==
    /\ pc = "paste"
    /\ i < Len(image_files)
    /\ CurImage.status = "ok"
    /\ Keying \/ CurImage.mode = "RGBA"
    /\ LET img == IF Keying THEN ChromaKey(CurImage, colorkey) ELSE CurImage
       IN /\ result' = PasteMasked(WithFill(result), img, x_pos, y_pos)
          /\ pastes' = pastes \o FillPastes \o <<PasteRecord("image", CurFile, img)>>
    /\ i' = i + 1
    /\ UNCHANGED <<args, fs, fs0, pc, image_files, cell_size, fill_image_resized,
                   outcome, exitCode>>

\* line 124, os.makedirs("") raises FileNotFoundError
MakeDirsFail ==
    /\ pc = "paste"
    /\ i = Len(image_files)
    /\ ~outputDirname
    /\ Exit("FileNotFoundError", 1)
    /\ UNCHANGED <<args, fs, fs0, locals>>

\* line 124
MakeDirs ==
    /\ pc = "paste"
    /\ i = Len(image_files)
    /\ outputDirname
    /\ outDir' = TRUE
    /\ pc' = "save"
    /\ UNCHANGED <<args, outFile, tempFile, fs0, locals, outcome, exitCode>>

\* lines 126-127
SaveTemp ==
    /\ pc = "save"
    /\ tempFile' = [kind |-> "png", img |-> result]
    /\ pc' = "finish"
    /\ UNCHANGED <<args, outFile, outDir, fs0, locals, outcome, exitCode>>

\* lines 129-132, pngquant is missing or exits with a non-zero status
\* without having written its output
ReduceFail ==
    /\ pc = "finish"
    /\ reduce
    /\ Exit("PostProcessError", 1)
    /\ UNCHANGED <<args, fs, fs0, locals>>

\* lines 129-132, pngquant writes the reduced image to the output path
Reduce ==
    /\ pc = "finish"
    /\ reduce
    /\ outFile' = [kind |-> "pngquant", img |-> tempFile.img]
    /\ pc' = "cleanup"
    /\ UNCHANGED <<args, tempFile, outDir, fs0, locals, outcome, exitCode>>

\* line 134
MoveTemp ==
    /\ pc = "finish"
    /\ ~reduce
    /\ outFile' = tempFile
    /\ tempFile' = NoFile
    /\ pc' = "cleanup"
    /\ UNCHANGED <<args, outDir, fs0, locals, outcome, exitCode>>

\* Cleanup that forgets temp.png
Cleanup_KeepTemp ==
    /\ pc = "cleanup"
    /\ Exit("ok", 0)
    /\ UNCHANGED <<args, fs, fs0, locals>>

\* lines 137-138
Cleanup ==
    /\ pc = "cleanup"
    /\ tempFile' = NoFile
    /\ Exit("ok", 0)
    /\ UNCHANGED <<args, outFile, outDir, fs0, locals>>

Next ==
    \/ NoPrompt
    \/ DeclineOverwrite
    \/ ConfirmOverwrite
    \/ RejectEmpty
    \/ RejectOverCapacity
    \/ Collect
    \/ ProbeFail
    \/ NewCanvas
    \/ NoFillImage
    \/ OpenFillFail
    \/ OpenFill
    \/ PasteDecodeFail
    \/ PasteBadMask
    \/ PasteImage
    \/ MakeDirsFail
    \/ MakeDirs
    \/ SaveTemp
    \/ ReduceFail
    \/ Reduce
    \/ MoveTemp
    \/ Cleanup

Spec == Init /\ [][Next]_vars

----------------------------------------------------------------------------
(* Properties *)

\* the *.png files of the directory, and their paths
Matching == {d \in DirUniverse : d.name \in directory /\ MatchesPattern(d.name)}
NumMatching == Cardinality(Matching)
Capacity == grid_rows * grid_cols

IsImagePaste(p) == p.kind = "image"
\* the source images pasted so far, in the order of the calls
ImagePastes == SelectSeq(pastes, IsImagePaste)

\* cs is the largest width or height of the input images
IsLargestDimension(cs) ==
    /\ \A d \in Matching : d.img.w <= cs /\ d.img.h <= cs
    /\ \E d \in Matching : d.img.w = cs \/ d.img.h = cs

\* the file holds the canvas with every input image pasted
CompleteGrid(file) ==
    /\ file.kind \in {"png", "pngquant"}
    /\ file.img = result
    /\ Len(ImagePastes) = NumMatching

BadCount == NumMatching = 0 \/ NumMatching > Capacity
Rejected == pc = "done" /\ outcome = "AssertionError"
NothingProduced == result = NoImage /\ pastes = <<>> /\ outFile = NoFile

\* C1 as stated: every run on a directory with 0 or more than rows x cols
\* matching images is rejected with the configuration error, no canvas is
\* composed and no output file is produced.
C1_Original == (pc = "done" /\ BadCount) => (Rejected /\ NothingProduced)

\* C1: every run on a directory with 0 or more than rows x cols matching
\* images that was not cancelled at the overwrite prompt is rejected with
\* the configuration error, no canvas is composed and no output file is
\* produced.
C1_RejectsBadCount ==
    (pc = "done" /\ BadCount /\ outcome # "UserCancelled")
        => (Rejected /\ NothingProduced)

C1_Witness == Rejected /\ NumMatching > Capacity /\ NumMatching = MaxFiles

\* C2: a run whose overwrite prompt is declined ends with exit status 0 and
\* the filesystem as it was: the old output file is in place, no temporary
\* file and no directory was created.
C2_DeclineChangesNothing ==
    outcome = "UserCancelled"
        => /\ pc = "done"
           /\ exitCode = 0
           /\ fs = fs0
           /\ outFile = OldFile

C2_Witness == outcome = "UserCancelled" /\ NumMatching > 0 /\ tempFile = NoFile

\* C3: once the canvas exists it is cols x CellSize wide and rows x CellSize
\* high, CellSize being the largest width or height of the input images.
C3_CanvasSize ==
    result # NoImage
        => /\ IsLargestDimension(cell_size)
           /\ result.w = grid_cols * cell_size
           /\ result.h = grid_rows * cell_size
           /\ Len(result.px) = result.w * result.h

\* a sparse grid of images of different shapes, all pasted
C3_Witness ==
    /\ pc = "done" /\ outcome = "ok"
    /\ NumMatching < Capacity
    /\ \E a, b \in Matching : a.img.w > a.img.h /\ b.img.h > b.img.w

\* C4: the k-th source image pasted is the k-th path in lexicographic order,
\* pasted at ((k-1) mod cols x CellSize, (k-1) div cols x CellSize); once the
\* loop has ended every input image was pasted.
C4_RowMajor ==
    /\ \A k \in 1..Len(ImagePastes) :
          /\ Cardinality({d \in Matching : LexLess(d.name, ImagePastes[k].file)}) = k - 1
          /\ ImagePastes[k].x = ((k - 1) % grid_cols) * cell_size
          /\ ImagePastes[k].y = ((k - 1) \div grid_cols) * cell_size
    /\ pc \in {"save", "finish", "cleanup"} => Len(ImagePastes) = NumMatching
    /\ outcome = "ok" => Len(ImagePastes) = NumMatching

\* three images in a 2 x 2 grid
C4_Witness ==
    /\ outcome = "ok" /\ Len(ImagePastes) = 3
    /\ grid_rows = 2 /\ grid_cols = 2

\* a source pixel as an RGBA pixel
AsRGBA(p) == IF Len(p) = 3 THEN <<p[1], p[2], p[3], 255>> ELSE p

\* C5: with keying enabled and a colour key set, a source pixel whose three
\* colour bands equal the key is pasted as the transparent pixel and every
\* other pixel is pasted unchanged; without keying every pixel is pasted
\* unchanged.
C5_ExactChromaKey ==
    \A k \in 1..Len(ImagePastes) :
        LET src == FileImage(ImagePastes[k].file)
            img == ImagePastes[k].img
        IN /\ Len(img.px) = Len(src.px)
           /\ \A n \in 1..Len(src.px) :
                 LET s == src.px[n]
                 IN IF process_colorkey /\ colorkey # None
                    THEN IF <<s[1], s[2], s[3]>> = colorkey
                         THEN img.px[n] = <<0, 0, 0, 0>>
                         ELSE img.px[n] = AsRGBA(s)
                    ELSE img.px[n] = s

\* keyed pastes of the key colour at several alphas and of near misses
C5_Witness ==
    /\ process_colorkey /\ colorkey = DefaultColorKey
    /\ \E k \in 1..Len(ImagePastes) :
          \E n \in 1..Len(ImagePastes[k].img.px) :
              /\ FileImage(ImagePastes[k].file).px[n] = <<255, 0, 228, 128>>
              /\ ImagePastes[k].img.px[n] = <<0, 0, 0, 0>>
    /\ \E k \in 1..Len(ImagePastes) :
          <<255, 0, 227, 255>> \in
              {ImagePastes[k].img.px[n] : n \in 1..Len(ImagePastes[k].img.px)}

\* C6: with a fill image, each source image is pasted right after the fill
\* was pasted at the same offset, and every canvas pixel under a source
\* pixel of alpha 255 is that source pixel, every canvas pixel under a
\* source pixel of alpha 0 is the pixel of the resized fill image there.
C6_FillThenSource ==
    fill # NoFill =>
        \A k \in 1..Len(pastes) :
            pastes[k].kind = "image" =>
                /\ k > 1
                /\ pastes[k - 1].kind = "fill"
                /\ pastes[k - 1].img = fill_image_resized
                /\ pastes[k - 1].x = pastes[k].x
                /\ pastes[k - 1].y = pastes[k].y
                /\ LET img == pastes[k].img
                   IN \A dx \in 0..(img.w - 1), dy \in 0..(img.h - 1) :
                        LET sp == img.px[dy * img.w + dx + 1]
                            cp == result.px[(pastes[k].y + dy) * result.w
                                            + pastes[k].x + dx + 1]
                            fp == AsRGBA(fill_image_resized.px[dy * cell_size + dx + 1])
                        IN /\ sp[4] = 255 => cp = sp
                           /\ sp[4] = 0 => cp = fp

\* a finished grid over a fill, with opaque and transparent source pixels
C6_Witness ==
    /\ fill # NoFill /\ outcome = "ok"
    /\ Len(ImagePastes) >= 2
    /\ \E k \in 1..Len(ImagePastes) :
          \E n \in 1..Len(ImagePastes[k].img.px) : ImagePastes[k].img.px[n][4] = 0
    /\ \E k \in 1..Len(ImagePastes) :
          \E n \in 1..Len(ImagePastes[k].img.px) : ImagePastes[k].img.px[n][4] = 255

Failed == outcome \in {"AssertionError", "DecodeError", "PostProcessError"}

\* C7 as stated: every run ends with the complete grid at the output path
\* or with no file there, and with no file there after a failure.
C7_Original ==
    pc = "done"
        => /\ outFile = NoFile \/ CompleteGrid(outFile)
           /\ Failed => outFile = NoFile

\* C7: every run that was not cancelled at the overwrite prompt ends with
\* the complete grid at the output path or with no file there, and with no
\* file there after a failure; a cancelled run ends with the file that was
\* there before.
C7_NoPartialOutput ==
    pc = "done"
        => /\ outcome # "UserCancelled" => (outFile = NoFile \/ CompleteGrid(outFile))
           /\ Failed => outFile = NoFile
           /\ outcome = "UserCancelled" => outFile = fs0[1]

\* a failed run that started with a file at the output path
C7_Witness == pc = "done" /\ Failed /\ fs0[1] = OldFile /\ outFile = NoFile

\* C8: when a run is rejected for its image count, no file or directory
\* has been created, modified or removed.
C8_RejectedBeforeAnyWork == Rejected => fs = fs0

\* the output file is written from the temporary file that holds the canvas
WrittenFromTemp ==
    (outFile' # outFile /\ outFile' # NoFile)
        => /\ tempFile = [kind |-> "png", img |-> result]
           /\ outFile'.img = result

\* C9: the output file is only ever written while the temporary file holds
\* the canvas, and a run that reaches the end has the output file and no
\* temporary file.
C9_TempFirstThenRemoved ==
    /\ [][WrittenFromTemp]_vars
    /\ [](outcome = "ok" => outFile # NoFile /\ tempFile = NoFile)

\* a finished run with size reduction that started with a stale temp.png
C9_Witness == outcome = "ok" /\ reduce /\ fs0[2] = StaleTemp /\ CompleteGrid(outFile)

\* the boxes of two paste calls have no pixel in common
Disjoint(p, q) ==
    \/ p.x + p.img.w <= q.x \/ q.x + q.img.w <= p.x
    \/ p.y + p.img.h <= q.y \/ q.y + q.img.h <= p.y

\* C10: every source image is pasted in its own size, inside its cell and
\* inside the canvas, and paste calls of different input images do not
\* overlap.
C10_InsideCell ==
    /\ \A k \in 1..Len(ImagePastes) :
          LET p == ImagePastes[k]
              src == FileImage(p.file)
          IN /\ p.img.w = src.w /\ p.img.h = src.h
             /\ p.x + p.img.w <= (((k - 1) % grid_cols) + 1) * cell_size
             /\ (((k - 1) % grid_cols) + 1) * cell_size <= result.w
             /\ p.y + p.img.h <= (((k - 1) \div grid_cols) + 1) * cell_size
             /\ (((k - 1) \div grid_cols) + 1) * cell_size <= result.h
    /\ \A a, b \in 1..Len(pastes) :
          pastes[a].file # pastes[b].file => Disjoint(pastes[a], pastes[b])

\* a full grid with a fill, whose images are smaller than the cell
C10_Witness ==
    /\ outcome = "ok" /\ fill # NoFill
    /\ NumMatching = Capacity /\ NumMatching >= 2
    /\ \E k \in 1..Len(ImagePastes) : ImagePastes[k].img.w < cell_size

====
